---- MODULE Spec2Model ----
(***************************************************************************)
(* A model of run.py: the manifest-driven aggregation of repositories.     *)
(*                                                                         *)
(* The filesystem is a function from paths (sequences of names) to nodes.  *)
(* A node is a directory or a file; a file carries the index of the        *)
(* project whose checkout wrote it (its content), and every node carries   *)
(* a flag `ro`:                                                            *)
(*   - on a file: the file cannot be unlinked until os.chmod makes it      *)
(*     writable (a read-only file on Windows);                             *)
(*   - on a directory: no entry of the directory can be removed (a         *)
(*     directory without write permission on POSIX); os.chmod is never     *)
(*     applied to directories by the program.                              *)
(* Directory listings (os.listdir, os.walk, shutil.rmtree) are taken in    *)
(* the order of NameOrder.                                                 *)
(***************************************************************************)
EXTENDS Integers, Sequences, FiniteSets, TLC

VARIABLES
    manifest,   \* the parsed projects, in manifest order
    fs,         \* the filesystem
    pc,         \* the position of main()
    i,          \* the index of the project the current loop is at
    trace,      \* history: the steps executed so far, in order
    ws,         \* history: the state of the workspace at each project path
    lastMoved,  \* history: per file name, the content last moved into sequences
    cfgSeen,    \* history: sequence_config.json existed when the project loop ended
    raw,        \* the manifest text as read from the file
    text,       \* manifest_content
    version     \* the extracted version

vars == <<manifest, fs, pc, i, trace, ws, lastMoved, cfgSeen, raw, text, version>>

----------------------------------------------------------------------------
(* Bounds *)

MaxProjects == 2
MaxFrags == 2

----------------------------------------------------------------------------
(* Paths and the filesystem *)

NameOrder ==
    << ".git", "a", "b", "c", "d", "info", "objects", "p", "pack", "q",
       "sequence_config.json", "sequences", "sparse-checkout", "w",
       "x.json", "y.json" >>

Parent(p) == SubSeq(p, 1, Len(p) - 1)

Base(p) == p[Len(p)]

IsPrefix(p, q) == Len(p) <= Len(q) /\ SubSeq(q, 1, Len(p)) = p

Exists(f, p) == p \in DOMAIN f

IsDir(f, p) == p \in DOMAIN f /\ f[p].kind = "dir"

IsFile(f, p) == p \in DOMAIN f /\ f[p].kind = "file"

Under(f, p) == {q \in DOMAIN f : IsPrefix(p, q)}

ListDir(f, p) ==
    LET names == {Base(q) : q \in {r \in DOMAIN f : Len(r) = Len(p) + 1 /\ IsPrefix(p, r)}}
    IN  SelectSeq(NameOrder, LAMBDA n : n \in names)

DirNode == [kind |-> "dir", c |-> 0, ro |-> FALSE]

FileNode(c) == [kind |-> "file", c |-> c, ro |-> FALSE]

Remove(f, S) == [q \in DOMAIN f \ S |-> f[q]]

\* the proper prefixes of p and p itself that are missing become directories
MakeDirs(f, p) ==
    LET missing == {SubSeq(p, 1, k) : k \in 0..Len(p)} \ DOMAIN f
    IN  [q \in missing |-> DirNode] @@ f

\* os.rename of src (with everything below it) to dst, replacing dst
Rename(f, src, dst) ==
    LET moved == Under(f, src)
        rest == DOMAIN f \ (moved \cup Under(f, dst))
        target(r) == dst \o SubSeq(r, Len(src) + 1, Len(r))
        source(q) == src \o SubSeq(q, Len(dst) + 1, Len(q))
    IN  [q \in rest \cup {target(r) : r \in moved} |->
            IF q \in rest THEN f[q] ELSE f[source(q)]]

Ok(f) == [fs |-> f, ok |-> TRUE]

Err(f) == [fs |-> f, ok |-> FALSE]

\* shutil.move(src, dst) on POSIX
Move(f, src, dst) ==
    IF ~Exists(f, src) THEN Err(f)
    ELSE IF src = dst THEN Ok(f)
    ELSE IF IsDir(f, dst)
         THEN LET real == dst \o <<Base(src)>>
              IN  IF Exists(f, real) \/ IsPrefix(src, real) THEN Err(f)
                  ELSE Ok(Rename(f, src, real))
    ELSE IF ~IsDir(f, Parent(dst)) THEN Err(f)
    ELSE IF Exists(f, dst) /\ IsDir(f, src) THEN Err(f)
    ELSE Ok(Rename(f, src, dst))

CanUnlink(f, q) == ~f[q].ro /\ ~f[Parent(q)].ro

CanRmdir(f, q) == ~f[Parent(q)].ro

RECURSIVE RmTree(_, _)
RECURSIVE RmEntries(_, _, _)

\* shutil.rmtree(p): depth first, stopping at the first entry it cannot remove
RmTree(f, p) ==
    IF ~IsDir(f, p) THEN Err(f)
    ELSE LET r == RmEntries(f, p, ListDir(f, p))
         IN  IF ~r.ok THEN r
             ELSE IF CanRmdir(r.fs, p) THEN Ok(Remove(r.fs, {p}))
             ELSE Err(r.fs)

RmEntries(f, p, names) ==
    IF names = <<>> THEN Ok(f)
    ELSE LET q == p \o <<Head(names)>>
             r == IF IsDir(f, q) THEN RmTree(f, q)
                  ELSE IF CanUnlink(f, q) THEN Ok(Remove(f, {q}))
                  ELSE Err(f)
         IN  IF r.ok THEN RmEntries(r.fs, p, Tail(names)) ELSE r

----------------------------------------------------------------------------
(* The manifest *)

Configurations == "configurations"

ProjectNames == {Configurations, "sequences_a"}

\* remotes = {name: fetch}; "nofetch" is a remote element without a fetch URL
Remotes == ("origin" :> "https://host/org") @@ ("nofetch" :> "")

RemoteRefs == {"origin", "nofetch", "missing"}

NoneValue == "None"

\* remotes.get(remote_name)
RemoteUrl(r) == IF r \in DOMAIN Remotes THEN Remotes[r] ELSE NoneValue

\* faulty variant: only a missing remote counts, an empty fetch URL is cloned from
NotUrlNoneOnly(u) == u = NoneValue

\* `not remote_url`
NotUrl(u) == u = "" \/ u = NoneValue

Cwd == <<"w">>

SparseAB == <<"a", "b">>

SparseChoices == {<< >>, <<SparseAB>>}

\* the tree of the revision every repository offers
RepoFiles ==
    { <<"a", "b", "x.json">>, <<"a", "b", "y.json">>, <<"a", "b", "sequence_config.json">>,
      <<"a", "b", "d", "x.json">>, <<"a", "c", "y.json">> }

SiblingPaths == {Cwd \o <<"p">>, Cwd \o <<"q">>}

\* also the sequences directory itself and the working directory, the latter
\* spelled through its parent ("../w"): os.rmdir(".") is refused by the system
AllPaths == SiblingPaths \cup {Cwd \o <<"sequences">>, Cwd}

Projects(paths, refs) ==
    [name : ProjectNames, remote : refs, path : paths, sparse : SparseChoices]

Manifests(paths, refs) ==
    UNION {[1..n -> Projects(paths, refs)] : n \in 0..MaxProjects}

----------------------------------------------------------------------------
(* Version-control adapter and flattening *)

GitDir(path) == path \o <<".git">>

SparseFile(path) == path \o <<".git", "info", "sparse-checkout">>

\* git clone --no-checkout: the metadata directory, with a read-only object file
GitClone(f, path, c) ==
    LET g == MakeDirs(MakeDirs(f, GitDir(path) \o <<"info">>), GitDir(path) \o <<"objects">>)
        pack == GitDir(path) \o <<"objects", "pack">>
    IN  (pack :> [kind |-> "file", c |-> c, ro |-> TRUE]) @@ g

\* setup_sparse_checkout after the git config command: open(sparse_file, "w")
WriteSparseFile(f, path, c) ==
    IF IsDir(f, Parent(SparseFile(path))) /\ ~IsDir(f, SparseFile(path))
    THEN Ok((SparseFile(path) :> FileNode(c)) @@ f)
    ELSE Err(f)

\* git checkout: materialises the revision's files, restricted to the sparse
\* patterns when the workspace has a sparse-checkout file
Checkout(f, path, c) ==
    LET files == IF IsFile(f, SparseFile(path))
                 THEN {r \in RepoFiles : IsPrefix(SparseAB, r)}
                 ELSE RepoFiles
        newFiles == {path \o r : r \in files}
        newDirs == UNION {{path \o SubSeq(r, 1, k) : k \in 0..(Len(r) - 1)} : r \in files}
    IN  [q \in newFiles |-> FileNode(c)] @@ [q \in newDirs \ DOMAIN f |-> DirNode] @@ f

RECURSIVE MoveEntries(_, _, _, _)

\* the loop of move_files_to_parent over os.listdir(target_folder)
MoveEntries(f, from, to, names) ==
    IF names = <<>> THEN Ok(f)
    ELSE LET r == Move(f, from \o <<Head(names)>>, to \o <<Head(names)>>)
         IN  IF r.ok THEN MoveEntries(r.fs, from, to, Tail(names)) ELSE r

\* faulty variant: the entries are moved up but the sub-path directory is left in place
MoveFilesToParentKeepsFolder(f, path, sparsePath) ==
    LET target == path \o sparsePath
    IN  IF IsDir(f, target) THEN MoveEntries(f, target, path, ListDir(f, target)) ELSE Ok(f)

MoveFilesToParent(f, path, sparsePath) ==
    LET target == path \o sparsePath
    IN  IF IsDir(f, target)
        THEN LET r == MoveEntries(f, target, path, ListDir(f, target))
             IN  IF r.ok THEN RmTree(r.fs, target) ELSE r
        ELSE Ok(f)

RECURSIVE FlattenAll(_, _, _)

\* clone_repo, after the checkout: for sparse_path in sparse_paths
FlattenAll(f, path, sparsePaths) ==
    IF sparsePaths = <<>> THEN Ok(f)
    ELSE LET r == MoveFilesToParent(f, path, Head(sparsePaths))
         IN  IF r.ok THEN FlattenAll(r.fs, path, Tail(sparsePaths)) ELSE r

\* faulty variant: check=False, the exit status is ignored
AfterGitUnchecked(ok, next) == next

\* subprocess.run(..., check=True): a non-zero exit raises CalledProcessError
AfterGit(ok, next) == IF ok THEN next ELSE "aborted"

\* clone_repo: if sparse_paths: setup_sparse_checkout(path, sparse_paths)
AfterClone(proj) == IF proj.sparse # << >> THEN "sparse" ELSE "checkout"

\* faulty variant: the flattening step is never taken
AfterCheckoutNoFlatten(proj) == "loop"

\* clone_repo: if sparse_paths: for sparse_path in sparse_paths: move_files_to_parent
AfterCheckout(proj) == IF proj.sparse # << >> THEN "flatten" ELSE "loop"

----------------------------------------------------------------------------
(* Metadata cleanup *)

\* os.chmod(filepath, 0o777) for every file below the metadata directory
ChmodFiles(f, g) ==
    [q \in DOMAIN f |->
        IF IsPrefix(g, q) /\ f[q].kind = "file" THEN [f[q] EXCEPT !.ro = FALSE] ELSE f[q]]

\* the except branch: os.remove of every file, failures printed and ignored
RemoveFilesBestEffort(f, g) ==
    Remove(f, {q \in Under(f, g) : f[q].kind = "file" /\ CanUnlink(f, q)})

\* one metadata directory: chmod, rmtree, and on PermissionError the per-file
\* removal followed by a second, unguarded rmtree
DeleteOneGit(f, g) ==
    LET r == RmTree(ChmodFiles(f, g), g)
    IN  IF r.ok THEN r ELSE RmTree(RemoveFilesBestEffort(r.fs, g), g)

RECURSIVE CleanWalk(_, _)
RECURSIVE CleanDirs(_, _, _)

\* os.walk(base_path), top down; a directory that has vanished is passed over
CleanWalk(f, dir) ==
    IF ~IsDir(f, dir) THEN Ok(f)
    ELSE LET dirs == SelectSeq(ListDir(f, dir), LAMBDA n : IsDir(f, dir \o <<n>>))
             r == IF IsDir(f, GitDir(dir)) THEN DeleteOneGit(f, GitDir(dir)) ELSE Ok(f)
         IN  IF r.ok THEN CleanDirs(r.fs, dir, dirs) ELSE r

CleanDirs(f, dir, names) ==
    IF names = <<>> THEN Ok(f)
    ELSE LET r == CleanWalk(f, dir \o <<Head(names)>>)
         IN  IF r.ok THEN CleanDirs(r.fs, dir, Tail(names)) ELSE r

DeleteGitFolders(f, base) == CleanWalk(f, base)

----------------------------------------------------------------------------
(* Reorganization *)

HasPath(m) == Len(m) > 0

\* os.path.abspath(os.path.join(project_path, "..", "sequences")) of the first project
SequencesPath(m) == Parent(m[1].path) \o <<"sequences">>

\* os.path.abspath(os.path.join(sequences_path, ".."))
ParentFolder(m) == Parent(SequencesPath(m))

SequenceConfig == "sequence_config.json"

\* sequence_config_file = os.path.join(<parent of sequences_path>, "sequence_config.json")
SequenceConfigFile(m) == ParentFolder(m) \o <<SequenceConfig>>

\* faulty variant: the destination is the file's own location
SequenceConfigTargetBeside(m) == ParentFolder(m) \o <<SequenceConfig>>

\* dst_file = os.path.join(sequences_path, "sequence_config.json")
SequenceConfigTarget(m) == SequencesPath(m) \o <<SequenceConfig>>

RECURSIVE ConfMove(_, _, _, _)

\* the configurations branch: every entry of os.listdir(project_path) to parent_folder
ConfMove(f, from, to, names) ==
    IF names = <<>> THEN Ok(f)
    ELSE LET r == Move(f, from \o <<Head(names)>>, to \o <<Head(names)>>)
         IN  IF r.ok THEN ConfMove(r.fs, from, to, Tail(names)) ELSE r

MoveConfigurations(f, path, parent) ==
    LET r == ConfMove(f, path, parent, ListDir(f, path))
    IN  IF r.ok THEN RmTree(r.fs, path) ELSE r

Walked(f, ok, last) == [fs |-> f, ok |-> ok, last |-> last]

RECURSIVE WalkFiles(_, _, _, _)
RECURSIVE WalkDirs(_, _, _, _)
RECURSIVE WalkTree(_, _, _)

\* for file_name in files: shutil.move(root/file_name, sequences_path/file_name)
WalkFiles(st, dir, names, seq) ==
    IF names = <<>> THEN st
    ELSE LET src == dir \o <<Head(names)>>
             r == Move(st.fs, src, seq \o <<Head(names)>>)
         IN  IF r.ok
             THEN WalkFiles(Walked(r.fs, TRUE, (Head(names) :> st.fs[src].c) @@ st.last),
                            dir, Tail(names), seq)
             ELSE Walked(r.fs, FALSE, st.last)

WalkDirs(st, dir, names, seq) ==
    IF names = <<>> THEN st
    ELSE LET r == WalkTree(st, dir \o <<Head(names)>>, seq)
         IN  IF r.ok THEN WalkDirs(r, dir, Tail(names), seq) ELSE r

\* os.walk(project_path), top down, each directory listed when it is reached
WalkTree(st, dir, seq) ==
    IF ~IsDir(st.fs, dir) THEN st
    ELSE LET names == ListDir(st.fs, dir)
             files == SelectSeq(names, LAMBDA n : IsFile(st.fs, dir \o <<n>>))
             dirs == SelectSeq(names, LAMBDA n : IsDir(st.fs, dir \o <<n>>))
             r == WalkFiles(st, dir, files, seq)
         IN  IF r.ok THEN WalkDirs(r, dir, dirs, seq) ELSE r

\* the else branch: move every file below project_path, then rmtree(project_path)
MoveToSequences(f, path, seq, last) ==
    LET r == WalkTree(Walked(f, TRUE, last), path, seq)
    IN  IF r.ok
        THEN LET d == RmTree(r.fs, path) IN Walked(d.fs, d.ok, r.last)
        ELSE r

----------------------------------------------------------------------------
(* Manifest parser *)

Token == <<"V", "E", "R", "S", "I", "O", "N", "_", "P", "L", "A", "C", "E",
           "H", "O", "L", "D", "E", "R">>

RECURSIVE Replace(_, _, _)

\* str.replace(old, new): the occurrences of old, left to right, not overlapping
Replace(s, old, new) ==
    IF Len(s) < Len(old) THEN s
    ELSE IF SubSeq(s, 1, Len(old)) = old
         THEN new \o Replace(SubSeq(s, Len(old) + 1, Len(s)), old, new)
         ELSE <<Head(s)>> \o Replace(Tail(s), old, new)

\* faulty variant: str.replace(old, new, 1), only the first occurrence is replaced
ReplaceVersionPlaceholderOnce(content, v) ==
    LET at == {k \in 1..(Len(content) - Len(Token) + 1) :
                  SubSeq(content, k, k + Len(Token) - 1) = Token}
    IN  IF at = {} THEN content
        ELSE LET k == CHOOSE j \in at : \A h \in at : j <= h
             IN  SubSeq(content, 1, k - 1) \o v \o SubSeq(content, k + Len(Token), Len(content))

ReplaceVersionPlaceholder(content, v) == Replace(content, Token, v)

\* The manifest text: "[" value "]" stands for the property element whose value
\* attribute is the version; the rest is the body with remotes and projects.
ManifestText(v, body) == <<"[">> \o v \o <<"]">> \o body

\* root.find("./property[@name='version']").get("value")
ExtractVersion(t) ==
    LET close == CHOOSE k \in 1..Len(t) : t[k] = "]" /\ \A j \in 1..(k - 1) : t[j] # "]"
    IN  SubSeq(t, 2, close - 1)

VersionPlace == SubSeq(Token, 1, 13)

Holder == SubSeq(Token, 14, 19)

Versions == {<<"1">>, <<"2", ".", "0">>, Holder, Token, << >>}

Fragments == {Token, VersionPlace, Holder, <<"-">>}

RECURSIVE Bodies(_)

Bodies(n) ==
    IF n = 0 THEN {<< >>}
    ELSE LET shorter == Bodies(n - 1)
         IN  shorter \cup {b \o g : b \in shorter, g \in Fragments}

----------------------------------------------------------------------------
(* main() *)

InitFS ==
    LET g == MakeDirs(MakeDirs(<< >> :> DirNode, GitDir(Cwd) \o <<"info">>),
                      GitDir(Cwd) \o <<"objects">>)
    IN  (GitDir(Cwd) \o <<"objects", "pack">> :> [kind |-> "file", c |-> 0, ro |-> TRUE]) @@ g

\* a step of the run: the operation, the project's index, whether it succeeded,
\* and the names the step found (the entries it was about to move)
Ev(op, proj, ok, names) == [op |-> op, proj |-> proj, ok |-> ok, names |-> names]

Names(seq) == {seq[k] : k \in 1..Len(seq)}

\* the base names of the files at any depth below path
FileNames(f, path) == {Base(q) : q \in {r \in Under(f, path) : f[r].kind = "file"}}

\* the names of the files directly in path
DirectFiles(f, path) == {n \in Names(ListDir(f, path)) : IsFile(f, path \o <<n>>)}

SetWs(path, state) == [ws EXCEPT ![path] = state]

NoHistory ==
    /\ trace = << >>
    /\ ws = [p \in AllPaths |-> "absent"]
    /\ lastMoved = << >>
    /\ cfgSeen = "unknown"

NoText == raw = << >> /\ text = << >> /\ version = << >>

Init ==
    /\ manifest \in Manifests(SiblingPaths, RemoteRefs)
    /\ fs = InitFS
    /\ pc = "loop"
    /\ i = 1
    /\ NoHistory
    /\ NoText

\* a project whose remote has no URL: print and continue
SkipProject ==
    /\ pc = "loop"
    /\ i <= Len(manifest)
    /\ NotUrl(RemoteUrl(manifest[i].remote))
    /\ i' = i + 1
    /\ trace' = Append(trace, Ev("skip", i, TRUE, {}))
    /\ UNCHANGED <<manifest, fs, pc, ws, lastMoved, cfgSeen, raw, text, version>>

\* clone_repo: git clone --no-checkout, or git fetch in an existing path
CloneOrFetch ==
    /\ pc = "loop"
    /\ i <= Len(manifest)
    /\ ~NotUrl(RemoteUrl(manifest[i].remote))
    /\ \E ok \in BOOLEAN :
        LET proj == manifest[i]
            op == IF Exists(fs, proj.path) THEN "fetch" ELSE "clone"
        IN  /\ fs' = IF ok /\ op = "clone" THEN GitClone(fs, proj.path, i) ELSE fs
            /\ pc' = AfterGit(ok, AfterClone(proj))
            /\ trace' = Append(trace, Ev(op, i, ok, {}))
            /\ ws' = IF ok /\ op = "clone" THEN SetWs(proj.path, "cloned-no-checkout") ELSE ws
    /\ UNCHANGED <<manifest, i, lastMoved, cfgSeen, raw, text, version>>

\* setup_sparse_checkout: git config core.sparseCheckout true, then the pattern file
SetupSparseCheckout ==
    /\ pc = "sparse"
    /\ \E ok \in BOOLEAN :
        LET proj == manifest[i]
            r == WriteSparseFile(fs, proj.path, i)
        IN  /\ fs' = IF ok THEN r.fs ELSE fs
            /\ pc' = IF ok /\ ~r.ok THEN "raised" ELSE AfterGit(ok, "checkout")
            /\ trace' = Append(trace, Ev("sparse", i, ok, {}))
            /\ ws' = IF ok /\ r.ok THEN SetWs(proj.path, "sparse-configured") ELSE ws
    /\ UNCHANGED <<manifest, i, lastMoved, cfgSeen, raw, text, version>>

\* clone_repo: git checkout revision
CheckoutRevision ==
    /\ pc = "checkout"
    /\ \E ok \in BOOLEAN :
        LET proj == manifest[i]
        IN  /\ fs' = IF ok THEN Checkout(fs, proj.path, i) ELSE fs
            /\ pc' = AfterGit(ok, AfterCheckout(proj))
            /\ i' = IF ok /\ AfterCheckout(proj) = "loop" THEN i + 1 ELSE i
            /\ trace' = Append(trace, Ev("checkout", i, ok, {}))
            /\ ws' = IF ok THEN SetWs(proj.path, "checked-out") ELSE ws
    /\ UNCHANGED <<manifest, lastMoved, cfgSeen, raw, text, version>>

\* clone_repo: move_files_to_parent for every sparse path
Flatten ==
    /\ pc = "flatten"
    /\ LET proj == manifest[i]
           r == FlattenAll(fs, proj.path, proj.sparse)
       IN  /\ fs' = r.fs
           /\ pc' = IF r.ok THEN "loop" ELSE "raised"
           /\ i' = IF r.ok THEN i + 1 ELSE i
           /\ trace' = Append(trace, Ev("flatten", i, r.ok, Names(ListDir(fs, proj.path \o SparseAB))))
           /\ ws' = IF r.ok THEN SetWs(proj.path, "flattened") ELSE ws
    /\ UNCHANGED <<manifest, lastMoved, cfgSeen, raw, text, version>>

\* the project loop is over: "Cleaning up .git folders..."
BeginCleanup ==
    /\ pc = "loop"
    /\ i > Len(manifest)
    /\ pc' = IF Len(manifest) = 0 THEN "reorg_begin" ELSE "cleanup"
    /\ i' = 1
    /\ UNCHANGED <<manifest, fs, trace, ws, lastMoved, cfgSeen, raw, text, version>>

\* if os.path.exists(project_path): delete_git_folders(project_path)
Cleanup ==
    /\ pc = "cleanup"
    /\ LET proj == manifest[i]
           there == Exists(fs, proj.path)
           r == IF there THEN DeleteGitFolders(fs, proj.path) ELSE Ok(fs)
       IN  /\ fs' = r.fs
           /\ pc' = IF ~r.ok THEN "raised"
                    ELSE IF i = Len(manifest) THEN "reorg_begin" ELSE "cleanup"
           /\ i' = IF ~r.ok THEN i ELSE IF i = Len(manifest) THEN 1 ELSE i + 1
           /\ trace' = IF there THEN Append(trace, Ev("cleanup", i, r.ok, {})) ELSE trace
           /\ ws' = IF there /\ r.ok THEN SetWs(proj.path, "metadata-cleaned") ELSE ws
    /\ UNCHANGED <<manifest, lastMoved, cfgSeen, raw, text, version>>

\* move_files_to_sequences_and_merge: the sequences path, created if absent
ReorgBegin ==
    /\ pc = "reorg_begin"
    /\ IF HasPath(manifest)
       THEN /\ fs' = IF Exists(fs, SequencesPath(manifest)) THEN fs
                     ELSE MakeDirs(fs, SequencesPath(manifest))
            /\ pc' = "reorg_project"
       ELSE /\ fs' = fs
            /\ pc' = "done"
    /\ i' = 1
    /\ trace' = Append(trace, Ev("reorg_begin", 0, TRUE, {}))
    /\ UNCHANGED <<manifest, ws, lastMoved, cfgSeen, raw, text, version>>

AfterProject(ok) ==
    /\ pc' = IF ~ok THEN "raised"
             ELSE IF i = Len(manifest) THEN "reorg_config" ELSE "reorg_project"
    /\ i' = IF ok /\ i < Len(manifest) THEN i + 1 ELSE i

\* a project path that does not exist: print and continue
ReorgSkip ==
    /\ pc = "reorg_project"
    /\ ~Exists(fs, manifest[i].path)
    /\ AfterProject(TRUE)
    /\ UNCHANGED <<manifest, fs, trace, ws, lastMoved, cfgSeen, raw, text, version>>

\* the project named "configurations"
ReorgConfigurations ==
    /\ pc = "reorg_project"
    /\ Exists(fs, manifest[i].path)
    /\ manifest[i].name = Configurations
    /\ LET r == MoveConfigurations(fs, manifest[i].path, ParentFolder(manifest))
       IN  /\ fs' = r.fs
           /\ AfterProject(r.ok)
           /\ trace' = Append(trace, Ev("reorg", i, r.ok, DirectFiles(fs, manifest[i].path)))
           /\ ws' = IF r.ok THEN SetWs(manifest[i].path, "reorganized-or-deleted") ELSE ws
    /\ UNCHANGED <<manifest, lastMoved, cfgSeen, raw, text, version>>

\* every other project
ReorgProject ==
    /\ pc = "reorg_project"
    /\ Exists(fs, manifest[i].path)
    /\ manifest[i].name # Configurations
    /\ LET r == MoveToSequences(fs, manifest[i].path, SequencesPath(manifest), lastMoved)
       IN  /\ fs' = r.fs
           /\ lastMoved' = r.last
           /\ AfterProject(r.ok)
           /\ trace' = Append(trace, Ev("reorg", i, r.ok, FileNames(fs, manifest[i].path)))
           /\ ws' = IF r.ok THEN SetWs(manifest[i].path, "reorganized-or-deleted") ELSE ws
    /\ UNCHANGED <<manifest, cfgSeen, raw, text, version>>

\* sequence_config.json beside the sequences directory
MoveSequenceConfig ==
    /\ pc = "reorg_config"
    /\ LET cfg == SequenceConfigFile(manifest)
           r == Move(fs, cfg, SequenceConfigTarget(manifest))
       IN  IF Exists(fs, cfg)
           THEN /\ fs' = r.fs
                /\ pc' = IF r.ok THEN "done" ELSE "raised"
                /\ lastMoved' = IF r.ok THEN (SequenceConfig :> fs[cfg].c) @@ lastMoved
                                ELSE lastMoved
                /\ cfgSeen' = "present"
                /\ trace' = Append(trace, Ev("config", Len(manifest) + 1, r.ok, {}))
           ELSE /\ pc' = "done"
                /\ cfgSeen' = "absent"
                /\ UNCHANGED <<fs, lastMoved, trace>>
    /\ UNCHANGED <<manifest, i, ws, raw, text, version>>

NextReorg ==
    \/ ReorgBegin
    \/ ReorgSkip
    \/ ReorgConfigurations
    \/ ReorgProject
    \/ MoveSequenceConfig

Next ==
    \/ SkipProject
    \/ CloneOrFetch
    \/ SetupSparseCheckout
    \/ CheckoutRevision
    \/ Flatten
    \/ BeginCleanup
    \/ Cleanup
    \/ NextReorg

Spec == Init /\ [][Next]_vars

----------------------------------------------------------------------------
(* main() for projects whose paths may also be the sequences directory or  *)
(* the working directory itself                                            *)

InitPaths ==
    /\ manifest \in Manifests(AllPaths, {"origin", "missing"})
    /\ fs = InitFS
    /\ pc = "loop"
    /\ i = 1
    /\ NoHistory
    /\ NoText

SpecPaths == InitPaths /\ [][Next]_vars

----------------------------------------------------------------------------
(* delete_git_folders on a project path whose metadata directories hold    *)
(* entries in every permission state                                       *)

CleanBase == Cwd \o <<"p">>

\* a metadata directory under path: .git/info, .git/objects/pack
GitTree(path, gitRo, objectsRo, packRo) ==
    (GitDir(path) :> [kind |-> "dir", c |-> 0, ro |-> gitRo])
    @@ (GitDir(path) \o <<"info">> :> DirNode)
    @@ (GitDir(path) \o <<"objects">> :> [kind |-> "dir", c |-> 0, ro |-> objectsRo])
    @@ (GitDir(path) \o <<"objects", "pack">> :> [kind |-> "file", c |-> 1, ro |-> packRo])

CleanTrees ==
    LET plain == (CleanBase \o <<"x.json">> :> FileNode(1))
                 @@ (CleanBase \o <<"d", "x.json">> :> FileNode(1))
                 @@ MakeDirs(InitFS, CleanBase \o <<"d">>)
        flags == BOOLEAN \X BOOLEAN \X BOOLEAN
        top == {GitTree(CleanBase, t[1], t[2], t[3]) : t \in flags}
        nested == {GitTree(CleanBase \o <<"d">>, t[1], t[2], t[3]) : t \in flags}
    IN  {g @@ plain : g \in top} \cup {g @@ plain : g \in nested}
        \cup {g @@ h @@ plain : g \in top, h \in nested}

InitClean ==
    /\ manifest = <<[name |-> "sequences_a", remote |-> "origin", path |-> CleanBase,
                     sparse |-> << >>]>>
    /\ fs \in CleanTrees
    /\ pc = "cleanup"
    /\ i = 1
    /\ NoHistory
    /\ NoText

SpecClean == InitClean /\ [][Cleanup]_vars

----------------------------------------------------------------------------
(* main(): the version and the placeholder, up to the second parse *)

InitParse ==
    /\ raw \in {ManifestText(v, b) : v \in Versions, b \in Bodies(MaxFrags)}
    /\ text = raw
    /\ version = << >>
    /\ pc = "read"
    /\ manifest = << >>
    /\ fs = InitFS
    /\ i = 1
    /\ NoHistory

\* version = root.find(...).get("value"); if not version: return
ReadVersion ==
    /\ pc = "read"
    /\ version' = ExtractVersion(text)
    /\ pc' = IF ExtractVersion(text) = << >> THEN "no_version" ELSE "replace"
    /\ UNCHANGED <<manifest, fs, i, trace, ws, lastMoved, cfgSeen, raw, text>>

\* manifest_content = replace_version_placeholder(manifest_content, version)
SubstituteVersion ==
    /\ pc = "replace"
    /\ text' = ReplaceVersionPlaceholder(text, version)
    /\ pc' = "parse"
    /\ UNCHANGED <<manifest, fs, i, trace, ws, lastMoved, cfgSeen, raw, version>>

NextParse == ReadVersion \/ SubstituteVersion

SpecParse == InitParse /\ [][NextParse]_vars

----------------------------------------------------------------------------
(* Claims about the version-control loop (Spec) *)

GitOps == {"clone", "fetch", "sparse", "checkout"}

LastEvent == trace[Len(trace)]

FirstEventOf(k) ==
    LET at == {j \in 1..Len(trace) : trace[j].proj = k /\ trace[j].op # "skip"}
    IN  trace[CHOOSE j \in at : \A h \in at : j <= h]

\* the flatten step of a project with sparse paths ["a/b"] has just returned
JustFlattened == trace # << >> /\ LastEvent.op = "flatten" /\ LastEvent.ok

FlattenedPath == manifest[LastEvent.proj].path

MovedUp ==
    /\ \A n \in LastEvent.names : Exists(fs, FlattenedPath \o <<n>>)
    /\ FirstEventOf(LastEvent.proj).op = "clone" =>
          \A r \in {t \in RepoFiles : IsPrefix(SparseAB, t)} :
              LET q == FlattenedPath \o SubSeq(r, Len(SparseAB) + 1, Len(r))
              IN  IsFile(fs, q) /\ fs[q].c = LastEvent.proj

\* C1 as stated: after flattening with sparse paths ["a/b"], every entry that was
\* directly under path/a/b exists directly under path, and path/a no longer exists.
C1_AsStated ==
    JustFlattened => MovedUp /\ ~Exists(fs, FlattenedPath \o <<"a">>)

\* C1, amended: after flattening with sparse paths ["a/b"], every entry that was
\* directly under path/a/b exists directly under path (with its content when the
\* project was freshly cloned), path/a/b no longer exists, and path/a still exists.
C1_Flattened ==
    JustFlattened =>
        /\ MovedUp
        /\ ~Exists(fs, FlattenedPath \o SparseAB)
        /\ IsDir(fs, FlattenedPath \o <<"a">>)

C1_Witness ==
    /\ JustFlattened
    /\ {"x.json", "d"} \subseteq LastEvent.names
    /\ IsFile(fs, FlattenedPath \o <<"d", "x.json">>)
    /\ ListDir(fs, FlattenedPath \o <<"a">>) = << >>

GitLog == SelectSeq(trace, LAMBDA e : e.op \in GitOps)

Command(e) == <<IF e.op \in {"clone", "fetch"} THEN "clone_or_fetch" ELSE e.op, e.proj>>

IssuedCommands == [k \in 1..Len(GitLog) |-> Command(GitLog[k])]

CommandsOf(k) ==
    <<(<<"clone_or_fetch", k>>)>>
    \o (IF manifest[k].sparse # << >> THEN <<(<<"sparse", k>>)>> ELSE << >>)
    \o <<(<<"checkout", k>>)>>

RECURSIVE ExpectedFrom(_, _)

\* the commands of the projects whose index is in usable, in manifest order
ExpectedFrom(k, usable) ==
    IF k > Len(manifest) THEN << >>
    ELSE (IF k \in usable THEN CommandsOf(k) ELSE << >>) \o ExpectedFrom(k + 1, usable)

IsPrefixOf(s, t) == Len(s) <= Len(t) /\ SubSeq(t, 1, Len(s)) = s

PastCloneLoop == pc \in {"cleanup", "reorg_begin", "reorg_project", "reorg_config", "done"}

SkippedOrRun(usable) ==
    /\ IsPrefixOf(IssuedCommands, ExpectedFrom(1, usable))
    /\ PastCloneLoop => IssuedCommands = ExpectedFrom(1, usable)
    /\ \A k \in 1..Len(trace) : trace[k].op = "skip" => trace[k].proj \notin usable

RemoteIsKey == {k \in 1..Len(manifest) : manifest[k].remote \in DOMAIN Remotes}

RemoteHasUrl == {k \in RemoteIsKey : Remotes[manifest[k].remote] # ""}

\* C4 as stated: exactly the projects whose remote name is not a key of the remote
\* set are skipped, with no git command; all others are cloned or updated and
\* checked out in manifest order.
C4_AsStated == SkippedOrRun(RemoteIsKey)

\* C4, amended: a project is skipped, with no git command and without aborting the
\* run, when its remote name is not a key of the remote set or the remote has no
\* fetch URL; every other project is cloned or updated, sparse-configured if it has
\* sparse paths, and checked out, in manifest order, up to the first failing step.
C4_Skipped == SkippedOrRun(RemoteHasUrl)

C4_Witness ==
    /\ pc = "done"
    /\ \E j, k \in 1..Len(manifest) :
          /\ j < k
          /\ manifest[j].remote = "missing"
          /\ manifest[k].remote = "origin"
          /\ \E h \in 1..Len(trace) : trace[h] = Ev("checkout", k, TRUE, {})

FailedGit(e) == e.op \in GitOps /\ ~e.ok

\* C5: a git command that returns non-zero is the last step of the run: no step
\* of any kind is recorded after it and main() takes no further step.
C5_GitFailureFatal ==
    /\ [](\A k \in 1..Len(trace) : FailedGit(trace[k]) => k = Len(trace) /\ pc = "aborted")
    /\ [][pc # "aborted"]_vars

C5_Witness ==
    /\ pc = "aborted"
    /\ Len(trace) > 3
    /\ FailedGit(LastEvent)
    /\ LastEvent.proj = 2

PhaseOf(op) ==
    IF op \in GitOps \cup {"skip", "flatten"} THEN 1 ELSE IF op = "cleanup" THEN 2 ELSE 3

StepOf(op) ==
    CASE op \in {"clone", "fetch"} -> 1
      [] op = "sparse" -> 2
      [] op = "checkout" -> 3
      [] op = "flatten" -> 4
      [] OTHER -> 0

\* phase, then project, then step within the project
Key(e) == PhaseOf(e.op) * 100 + e.proj * 10 + StepOf(e.op)

TraceOrdered == \A j, k \in 1..Len(trace) : j < k => Key(trace[j]) < Key(trace[k])

HasSparse(k) == manifest[k].sparse # << >>

Follows(k, ops) ==
    /\ k > 1
    /\ trace[k - 1].proj = trace[k].proj
    /\ trace[k - 1].ok
    /\ trace[k - 1].op \in ops

\* within one project: clone-or-fetch, sparse configuration only with sparse
\* paths, checkout, flattening only with sparse paths
StepsInOrder ==
    /\ \A k \in 1..Len(trace) :
          LET e == trace[k]
          IN  /\ e.op = "sparse" => HasSparse(e.proj) /\ Follows(k, {"clone", "fetch"})
              /\ e.op = "checkout" =>
                    Follows(k, IF HasSparse(e.proj) THEN {"sparse"} ELSE {"clone", "fetch"})
              /\ e.op = "flatten" => HasSparse(e.proj) /\ Follows(k, {"checkout"})
    /\ trace # << >> /\ LastEvent.ok =>
          /\ LastEvent.op \in {"clone", "fetch"} =>
                pc = IF HasSparse(LastEvent.proj) THEN "sparse" ELSE "checkout"
          /\ LastEvent.op = "sparse" => pc \in {"checkout", "raised"}
          /\ LastEvent.op = "checkout" /\ HasSparse(LastEvent.proj) => pc = "flatten"

Happened(op, k) == \E j \in 1..Len(trace) : trace[j].op = op /\ trace[j].proj = k /\ trace[j].ok

NoGitDirBelow(path) == \A q \in Under(fs, path) : Base(q) # ".git" \/ q = path

\* cleanup starts after every project's version-control and flattening steps;
\* reorganization starts after every project's cleanup
PhasesSeparated ==
    /\ (\E k \in 1..Len(trace) : PhaseOf(trace[k].op) > 1) =>
          \A k \in RemoteHasUrl :
              Happened("checkout", k) /\ (HasSparse(k) => Happened("flatten", k))
    /\ (\E k \in 1..Len(trace) : PhaseOf(trace[k].op) > 2) =>
          \A k \in 1..Len(manifest) :
              Exists(fs, manifest[k].path) => NoGitDirBelow(manifest[k].path)

WsRank(state) ==
    CASE state = "absent" -> 0
      [] state = "cloned-no-checkout" -> 1
      [] state = "sparse-configured" -> 2
      [] state = "checked-out" -> 3
      [] state = "flattened" -> 4
      [] state = "metadata-cleaned" -> 5
      [] state = "reorganized-or-deleted" -> 6

NeverBackwards(paths) == \A p \in paths : WsRank(ws'[p]) >= WsRank(ws[p])

Unshared == {p \in AllPaths : Cardinality({k \in RemoteHasUrl : manifest[k].path = p}) <= 1}

\* C9 as stated: the steps of a project are in order, the phases are separated,
\* and the workspace at every path never moves backwards.
C9_AsStated ==
    /\ [](TraceOrdered /\ StepsInOrder /\ PhasesSeparated)
    /\ [][NeverBackwards(AllPaths)]_vars

\* C9, amended: the steps of a project are in order (clone-or-fetch, sparse
\* configuration only with sparse paths, checkout, flattening), cleanup starts after
\* the version-control and flattening steps of every project, reorganization after
\* every cleanup, and the workspace at a path that only one project uses never
\* moves backwards; a path that two projects share is taken through the
\* version-control steps again by the second project.
C9_PhaseOrder ==
    /\ [](TraceOrdered /\ StepsInOrder /\ PhasesSeparated)
    /\ [][NeverBackwards(Unshared)]_vars

C9_Witness ==
    /\ pc = "done"
    /\ Len(manifest) = 2
    /\ manifest[1].path # manifest[2].path
    /\ Happened("flatten", 1)
    /\ Happened("checkout", 2)
    /\ ~HasSparse(2)
    /\ Happened("cleanup", 2)
    /\ Happened("reorg", 1)
    /\ ws[manifest[1].path] = "reorganized-or-deleted"

----------------------------------------------------------------------------
(* Claims about the reorganization (SpecPaths) *)

SeqDir == SequencesPath(manifest)

Returned == pc = "done"

\* the steps in which the loop of the reorganization took a project's directory apart
Reorganized(configurations) ==
    {k \in 1..Len(trace) :
        /\ trace[k].op = "reorg"
        /\ trace[k].ok
        /\ (manifest[trace[k].proj].name = Configurations) = configurations}

OneInSequences(n) ==
    /\ IsFile(fs, SeqDir \o <<n>>)
    /\ Cardinality({q \in Under(fs, SeqDir) : fs[q].kind = "file" /\ Base(q) = n}) = 1

\* a project path is the sequences directory or a directory above it
Overlap == \E k \in 1..Len(manifest) : IsPrefix(manifest[k].path, SeqDir)

Collisions ==
    \A j, k \in Reorganized(FALSE) :
        j # k =>
            \A n \in trace[j].names \cap trace[k].names :
                /\ OneInSequences(n)
                /\ fs[SeqDir \o <<n>>].c = lastMoved[n]
                /\ ~Exists(fs, manifest[trace[j].proj].path)
                /\ ~Exists(fs, manifest[trace[k].proj].path)

\* C2: when the reorganization has returned, for any two projects not named
\* "configurations" whose directories held a file of the same base name, exactly one
\* file of that name is in the sequences directory, with the content of the file
\* moved last, and both project directories are gone.
C2_AsStated == Returned => Collisions

\* C2 where no project path is the sequences directory or above it
C2_WithoutOverlap == Returned /\ ~Overlap => Collisions

ConfigurationsMoved ==
    \A k \in Reorganized(TRUE) :
        {"x.json", "y.json"} \subseteq trace[k].names =>
            /\ \A n \in {"x.json", "y.json"} :
                  /\ IsFile(fs, ParentFolder(manifest) \o <<n>>)
                  /\ ~(IsFile(fs, SeqDir \o <<n>>) /\ fs[SeqDir \o <<n>>].c = trace[k].proj)
            /\ ~Exists(fs, manifest[trace[k].proj].path)

\* C3: when the reorganization has returned, the files x.json and y.json of a
\* project named "configurations" are in the parent directory of the sequences
\* directory, not in the sequences directory, and the project directory is gone.
C3_AsStated == Returned => ConfigurationsMoved

\* C3 where no project path is the sequences directory or above it
C3_WithoutOverlap == Returned /\ ~Overlap => ConfigurationsMoved

\* C7: sequence_config.json, if it is beside the sequences directory when the
\* project loop has finished, is inside the sequences directory and no longer beside
\* it when the reorganization returns; if it is absent the reorganization returns
\* without moving anything in that step.
C7_SequenceConfig ==
    /\ [](Returned /\ cfgSeen = "present" =>
            /\ IsFile(fs, SeqDir \o <<SequenceConfig>>)
            /\ ~Exists(fs, ParentFolder(manifest) \o <<SequenceConfig>>))
    /\ [](cfgSeen = "absent" => Returned)
    /\ [][pc = "reorg_config" /\ ~Exists(fs, ParentFolder(manifest) \o <<SequenceConfig>>)
            => fs' = fs /\ pc' = "done"]_vars

C7_Witness ==
    /\ Returned
    /\ cfgSeen = "present"
    /\ IsFile(fs, SeqDir \o <<SequenceConfig>>)
    /\ \E k \in Reorganized(TRUE) : SequenceConfig \in trace[k].names

C7_WitnessAbsent == Returned /\ cfgSeen = "absent" /\ Reorganized(FALSE) # {}

\* C10: when the reorganization has returned for a manifest with a project path,
\* the sequences directory exists and holds every file that was moved into it.
C10_AsStated ==
    Returned /\ HasPath(manifest) =>
        /\ IsDir(fs, SeqDir)
        /\ \A n \in DOMAIN lastMoved : IsFile(fs, SeqDir \o <<n>>)

\* C10 where no project path is the sequences directory or above it
C10_WithoutOverlap ==
    Returned /\ HasPath(manifest) /\ ~Overlap =>
        /\ IsDir(fs, SeqDir)
        /\ \A n \in DOMAIN lastMoved : IsFile(fs, SeqDir \o <<n>>)

----------------------------------------------------------------------------
(* Claims about the metadata cleanup (SpecClean) *)

CleanupReturned == pc # "cleanup" /\ pc # "raised"

\* C6: whatever the permissions of the entries inside the metadata directories,
\* delete_git_folders returns without raising and leaves no .git directory
\* anywhere below the base path.
C6_AsStated == pc # "cleanup" => CleanupReturned /\ NoGitDirBelow(CleanBase)

\* C6 where every directory is writable: read-only files alone never stop it
C6_WritableDirectories ==
    pc # "cleanup" /\ (\A q \in DOMAIN fs : ~(fs[q].kind = "dir" /\ fs[q].ro)) =>
        CleanupReturned /\ NoGitDirBelow(CleanBase)

\* a read-only directory inside .git makes the retried rmtree raise
C6_RaisedByDirectory ==
    pc = "raised" => \E q \in Under(fs, CleanBase) : fs[q].kind = "dir" /\ fs[q].ro

----------------------------------------------------------------------------
(* Claims about the manifest parser (SpecParse) *)

Occurrences(s) ==
    {k \in 1..(Len(s) - Len(Token) + 1) : SubSeq(s, k, k + Len(Token) - 1) = Token}

HasToken(s) == Occurrences(s) # {}

Covered(s, j) == \E k \in Occurrences(s) : k <= j /\ j < k + Len(Token)

\* how far the substitutions left of position j have shifted it
Shift(s, j) == Cardinality({k \in Occurrences(s) : k < j}) * (Len(version) - Len(Token))

\* text is raw with every occurrence of the token replaced by the version and
\* every other character kept
Substituted ==
    /\ version = ExtractVersion(raw)
    /\ Len(text) = Len(raw) + Cardinality(Occurrences(raw)) * (Len(version) - Len(Token))
    /\ \A j \in 1..Len(raw) : ~Covered(raw, j) => text[j + Shift(raw, j)] = raw[j]
    /\ \A k \in Occurrences(raw) :
          SubSeq(text, k + Shift(raw, k), k + Shift(raw, k) + Len(version) - 1) = version

Parsing == pc = "parse"

\* C8 as stated: the text that is parsed has no occurrence of the token, and is the
\* raw text with every occurrence replaced by the version.
C8_AsStated == Parsing => ~HasToken(text) /\ Substituted

\* C8, amended: the text that is parsed is the raw text with every occurrence of
\* the token replaced by the version and is otherwise unchanged; it has no
\* occurrence of the token when the version has no character of the token.
C8_Substituted ==
    Parsing =>
        /\ Substituted
        /\ Names(version) \cap Names(Token) = {} => ~HasToken(text)

C8_Witness ==
    /\ Parsing
    /\ Cardinality(Occurrences(raw)) = 2
    /\ version = <<"2", ".", "0">>
    /\ ~HasToken(text)
    /\ Len(text) < Len(raw)

====
